---- MODULE Spec2Model ----
(***************************************************************************)
(* Capture-and-ingest pipeline of redbug_dewey (handlers/handlers.go):     *)
(* the length-prefixed frame codec, the f-backed FIFO buffer, the       *)
(* capture (reader) loop, the ingest loop and the capture manager.         *)
(*                                                                         *)
(* Files are modelled as byte sequences.  The buffer path names one inode  *)
(* (disk); the FIFOBuffer keeps its own descriptor, which after a rename   *)
(* over the path refers to the unlinked inode (orphan).                    *)
(***************************************************************************)
EXTENDS Integers, Sequences, FiniteSets, TLC

\* ------------------------------------------------------------------ bounds
MaxRecLen == 1
MaxAppends == 2
MaxArg == 2
MaxLines == 3
MaxBatch == 2
MaxFaults == 2
PadCap == 64
MaxGen == 2
MaxResidue == 1
MaxTimed == 3
MaxLifeLines == 1
MaxStamp == 11

\* ------------------------------------------------------- program constants
LenProbe == 1000000
SleepCap == 10

\* ------------------------------------------------------------------ helpers
Min(a, b) == IF a < b THEN a ELSE b

Range(s) == {s[i] : i \in 1..Len(s)}

Take(s, n) == SubSeq(s, 1, Min(n, Len(s)))

Drop(s, n) == SubSeq(s, Min(n, Len(s)) + 1, Len(s))

IsPrefix(s, t) == Len(s) <= Len(t) /\ SubSeq(t, 1, Len(s)) = s

RECURSIVE SeqsUpTo(_, _)
SeqsUpTo(S, n) ==
    IF n = 0 THEN {<<>>}
    ELSE LET shorter == SeqsUpTo(S, n - 1)
         IN  shorter \cup {Append(s, x) : s \in {t \in shorter : Len(t) = n - 1}, x \in S}

PayloadBytes == {65, 66}

Records == SeqsUpTo(PayloadBytes, MaxRecLen)

\* --------------------------------------------------------------- frame codec
\* lenBuf of writeLengthPrefixed: uint32(len(data)), big-endian.  The lengths
\* of the model are below 2^31, where the conversion to uint32 changes nothing.
EncodeLen(l) ==
    << (l \div 16777216) % 256, (l \div 65536) % 256, (l \div 256) % 256, l % 256 >>

\* l of readBatchFromDisk / removeBatchFromDisk.
DecodeLen(b) == b[1] * 16777216 + b[2] * 65536 + b[3] * 256 + b[4]

\* The bytes the two f.Write calls of writeLengthPrefixed add to the file.
writeLengthPrefixed(data) == EncodeLen(Len(data)) \o data

\* make([]byte, n) filled from its start with the bytes read.  A buffer with
\* more than PadCap bytes left at zero is written <<-1, n>> \o bytes: its
\* length and the bytes read, without the run of zeros.
Pad(bytes, n) ==
    IF n - Len(bytes) > PadCap
    THEN <<-1, n>> \o bytes
    ELSE bytes \o [i \in 1..(n - Len(bytes)) |-> 0]

\* Variant of FileRead in which a zero-length read reports end of file.
FileReadZeroIsEOF(f, pos, n) ==
    IF n = 0 \/ pos >= Len(f) THEN [err |-> TRUE, cnt |-> 0, buf |-> <<>>]
    ELSE LET c == Min(n, Len(f) - pos)
         IN  [err |-> FALSE, cnt |-> c, buf |-> Pad(SubSeq(f, pos + 1, pos + c), n)]

\* f.Read(buf) with len(buf) = n at offset pos of a regular file: a zero-length
\* read returns (0, nil); at or past end of file (0, io.EOF); otherwise the
\* bytes available, up to n, and no error.  buf keeps its zero bytes where
\* nothing was read.
FileRead(f, pos, n) ==
    IF n = 0 THEN [err |-> FALSE, cnt |-> 0, buf |-> <<>>]
    ELSE IF pos >= Len(f) THEN [err |-> TRUE, cnt |-> 0, buf |-> <<>>]
    ELSE LET c == Min(n, Len(f) - pos)
         IN  [err |-> FALSE, cnt |-> c, buf |-> Pad(SubSeq(f, pos + 1, pos + c), n)]

RECURSIVE ReadFrames(_, _, _)
ReadFrames(f, pos, max) ==
    IF max <= 0 THEN <<>>
    ELSE LET h == FileRead(f, pos, 4)
         IN  IF h.err THEN <<>>
             ELSE LET l == DecodeLen(h.buf)
                      b == FileRead(f, pos + h.cnt, l)
                  IN  IF b.err THEN <<>>
                      ELSE <<b.buf>> \o ReadFrames(f, pos + h.cnt + b.cnt, max - 1)

\* The batch readBatchFromDisk returns for a file with this content.
readBatchFromDisk(f, max) == ReadFrames(f, 0, max)

\* Variant of ScanOffset in which the offset leaves out the four length bytes.
RECURSIVE ScanOffsetNoHeader(_, _, _)
ScanOffsetNoHeader(f, pos, n) ==
    IF n <= 0 THEN 0
    ELSE LET h == FileRead(f, pos, 4)
         IN  IF h.err THEN 0
             ELSE LET l == DecodeLen(h.buf)
                  IN  l + ScanOffsetNoHeader(f, pos + h.cnt + l, n - 1)

\* The offset loop of removeBatchFromDisk: 4 + l per length read, Seek(l, 1).
RECURSIVE ScanOffset(_, _, _)
ScanOffset(f, pos, n) ==
    IF n <= 0 THEN 0
    ELSE LET h == FileRead(f, pos, 4)
         IN  IF h.err THEN 0
             ELSE LET l == DecodeLen(h.buf)
                  IN  4 + l + ScanOffset(f, pos + h.cnt + l, n - 1)

\* rem of removeBatchFromDisk: f.Seek(offset, 0); io.ReadAll(f).
Remainder(f, offset) ==
    IF offset >= Len(f) THEN <<>> ELSE SubSeq(f, offset + 1, Len(f))

\* The content at the buffer path after removeBatchFromDisk(path, n) ran alone.
removeBatchFromDisk(f, n) == Remainder(f, ScanOffset(f, 0, n))

\* Whether removeBatchFromDisk replaces the file by rename (TRUE) or truncates.
RemoveRenames(f, n) == ScanOffset(f, 0, n) < Len(f)

\* The calls of removeBatchFromDisk that return an error when they fail.
RemoveSteps == {"open", "stat", "truncate", "readall", "create", "write", "rename"}

\* Variant of RemoveOutcome that rewrites the file in place: the path is
\* truncated first and the remainder written to it, with no temporary file.
RemoveOutcomeInPlace(f, n, failAt) ==
    LET offset == ScanOffset(f, 0, n)
    IN  IF failAt \in {"open", "stat"} THEN [err |-> TRUE, path |-> f]
        ELSE IF offset >= Len(f)
             THEN IF failAt = "truncate" THEN [err |-> TRUE, path |-> f]
                  ELSE [err |-> FALSE, path |-> <<>>]
             ELSE IF failAt = "readall" THEN [err |-> TRUE, path |-> f]
                  ELSE IF failAt \in {"create", "write", "rename"}
                       THEN [err |-> TRUE, path |-> <<>>]
                       ELSE [err |-> FALSE, path |-> Remainder(f, offset)]

\* removeBatchFromDisk(path, n) on a file with the content f when the call
\* failAt fails (if the run makes that call): whether an error is returned and
\* the content at the path afterwards.  Every return before os.Rename leaves
\* the path alone: the remainder goes to path + ".tmp".
RemoveOutcome(f, n, failAt) ==
    LET offset == ScanOffset(f, 0, n)
    IN  IF failAt \in {"open", "stat"} THEN [err |-> TRUE, path |-> f]
        ELSE IF offset >= Len(f)
             THEN IF failAt = "truncate" THEN [err |-> TRUE, path |-> f]
                  ELSE [err |-> FALSE, path |-> <<>>]
             ELSE IF failAt \in {"readall", "create", "write", "rename"}
                  THEN [err |-> TRUE, path |-> f]
                  ELSE [err |-> FALSE, path |-> Remainder(f, offset)]

RECURSIVE Encode(_)
Encode(recs) ==
    IF recs = <<>> THEN <<>> ELSE writeLengthPrefixed(Head(recs)) \o Encode(Tail(recs))

WellFormed(f) == Encode(readBatchFromDisk(f, LenProbe)) = f

Prefixes(f) == {SubSeq(f, 1, n) : n \in 0..Len(f)}

\* -------------------------------------------------------------------- state
VARIABLES
    disk,         \* bytes of the file at the buffer path (capture_buffer.dat)
    orphan,       \* bytes of the unlinked inode the FIFOBuffer descriptor holds
    attached,     \* the FIFOBuffer descriptor refers to the file at the path
    file,         \* cm.file is not nil
    srcOpen,      \* the source file Start opened has not been closed
    buffer,       \* cm.buffer, the in-memory fallback
    bufferImpl,   \* cm.bufferImpl: "nil", "fifo", or "typednil" (a nil *FIFOBuffer)
    stopCh,       \* cm.stopCh: "nil", "open" or "closed"
    stopped,      \* cm.stopped
    ingesting,    \* cm.ingesting
    lastStatus,   \* cm.lastStatus: Ingested, ErrorCount, LastError
    mu,           \* holder of cm.mu: "free", "reader", or "dead" (never released)
    captureDB,    \* captureDB is not nil
    ret,          \* what the last StartSimulatedCapture returned
    rpc,          \* captureLoop: "idle", "scan", "append", "data", "done"
    rpos,         \* captureLoop: lines the scanner has returned
    ipc,          \* ingestLoop: "idle", "check", "read", "tx", "remove", "trunc",
                  \*             "rename", "update", "done"
    batch,        \* ingestLoop: batch
    ingested,     \* ingestLoop: ingested
    errs,         \* ingestLoop: errs
    rem,          \* removeBatchFromDisk: rem
    store,        \* rows of timeseries_event, in identifier order
    faults,       \* history: failures of file and store calls so far
    appended,     \* history: records whose Append returned nil, in order
    removeCalled, \* history: RemoveBatch has been called on the buffer
    lastOp,       \* history: the last buffer operation, its argument and result
    batchSrc,     \* history: where batch was read from: "none", "disk", "mem"
    attempt,      \* history: the ingester's last transaction and what followed
    gen,          \* captures started so far: calls of Start that launched tasks
    rd,           \* the captureLoop goroutine of each capture
    ig,           \* the ingestLoop goroutine of each capture: pc and len(batch)
    obs,          \* what GetCaptureStatus returned, if the last step was that call
    residue,      \* history: the records the buffer file held before the first Start
    tlog,         \* a source log whose lines may start with a timestamp
    tpos,         \* captureLoop on tlog: lines the scanner has returned
    lastTimestamp, \* captureLoop: lastTimestamp, in seconds
    first,        \* captureLoop: first
    slept,        \* history: seconds slept before the append of line tpos
    manufacturer, \* the rows of the table manufacturer
    timeseries_event, \* the rows of the table timeseries_event
    seq,          \* the highest id timeseries_event has given out (AUTOINCREMENT)
    dbret         \* history: the last database handler called, its arguments and result

filevars == <<disk, orphan, attached>>

mgrvars == <<file, srcOpen, buffer, bufferImpl, stopCh, stopped, ingesting, lastStatus, mu,
             captureDB, ret>>

rdrvars == <<rpc, rpos>>

ingvars == <<ipc, batch, ingested, errs, rem>>

histvars == <<faults, appended, removeCalled, lastOp, batchSrc, attempt>>

pipevars == <<mgrvars, rdrvars, ingvars, store, faults, batchSrc, attempt>>

timevars == <<tlog, tpos, lastTimestamp, first, slept>>

taskvars == <<gen, rd, ig, obs, residue>>

dbvars == <<manufacturer, timeseries_event, seq, dbret>>

lifevars == <<taskvars, timevars, dbvars>>

vars == <<filevars, mgrvars, rdrvars, ingvars, store, histvars, lifevars>>

\* The source log: distinct one-byte lines, so that a record names its line.
Log == [i \in 1..MaxLines |-> <<64 + i>>]

Err(msg, n) == [msg |-> msg, n |-> n]

NoErr == Err("", 0)

\* CaptureStatus{}: the counters and LastError of a fresh status.
ZeroStatus == [Ingested |-> 0, ErrorCount |-> 0, LastError |-> NoErr]

\* One row of timeseries_event as ingestLoop inserts it.
Row(line) == [source |-> "capture", type |-> "stream", payload |-> line]

NoAttempt ==
    [res |-> "none", batch |-> <<>>, src |-> "none", fails |-> {}, prev |-> "none",
     rm |-> "none"]

\* The inode FIFOBuffer.file refers to.
FdFile == IF attached THEN disk ELSE orphan

\* f.Write(bytes) on FIFOBuffer.file, opened with O_APPEND.
WriteFd(bytes) ==
    IF attached
    THEN disk' = disk \o bytes /\ orphan' = orphan
    ELSE orphan' = orphan \o bytes /\ disk' = disk

\* FIFOBuffer.Len on a buffer whose path holds the bytes d.
FIFOBufferLen(d) == Len(readBatchFromDisk(d, LenProbe))

FIFOLen == FIFOBufferLen(disk)

\* FIFOBuffer.SizeBytes: the size of the descriptor's file.
FIFOSizeBytes == Len(FdFile)

Op(name, arg, out, pre, rep) == [name |-> name, arg |-> arg, out |-> out, pre |-> pre, rep |-> rep]

NoOp == Op("none", 0, <<>>, <<>>, FALSE)

\* The zero CaptureManager, no capture database, no buffer file.
PipeIdle ==
    /\ file = FALSE
    /\ srcOpen = FALSE
    /\ buffer = <<>>
    /\ bufferImpl = "nil"
    /\ stopCh = "nil"
    /\ stopped = FALSE
    /\ ingesting = FALSE
    /\ lastStatus = ZeroStatus
    /\ mu = "free"
    /\ captureDB = FALSE
    /\ ret = "none"
    /\ rpc = "idle"
    /\ rpos = 0
    /\ ipc = "idle"
    /\ batch = <<>>
    /\ ingested = 0
    /\ errs = 0
    /\ rem = <<>>
    /\ store = <<>>
    /\ faults = 0
    /\ batchSrc = "none"
    /\ attempt = NoAttempt

\* A goroutine that "go cm.captureLoop()" has not started yet.
NoReader == [pc |-> "none", pos |-> 0, open |-> FALSE]

\* A goroutine that "go cm.ingestLoop()" has not started yet.
NoIngester == [pc |-> "none", n |-> 0]

NoObs == [kind |-> "none"]

\* No capture has been started; the observer has not asked for the status.
LifeIdle ==
    /\ gen = 0
    /\ rd = [g \in 1..MaxGen |-> NoReader]
    /\ ig = [g \in 1..MaxGen |-> NoIngester]
    /\ obs = NoObs
    /\ residue = <<>>

\* captureLoop before its first line: "var lastTimestamp float64", "first = true".
NoRet == [op |-> "none"]

DBIdle ==
    /\ manufacturer = {}
    /\ timeseries_event = {}
    /\ seq = 0
    /\ dbret = NoRet

TimeIdle ==
    /\ tlog = <<>>
    /\ tpos = 0
    /\ lastTimestamp = 0
    /\ first = TRUE
    /\ slept = 0

\* ------------------------------------------------ buffer operations, alone
\* NewFIFOBuffer on a path that holds no file yet.
BufInit ==
    /\ disk = <<>>
    /\ orphan = <<>>
    /\ attached = TRUE
    /\ appended = <<>>
    /\ removeCalled = FALSE
    /\ lastOp = NoOp
    /\ PipeIdle
    /\ LifeIdle
    /\ TimeIdle
    /\ DBIdle

\* FIFOBuffer.Append
BufAppend(data) ==
    /\ Len(appended) < MaxAppends
    /\ WellFormed(FdFile)
    /\ WriteFd(writeLengthPrefixed(data))
    /\ attached' = attached
    /\ appended' = Append(appended, data)
    /\ lastOp' = Op("append", 0, <<>>, <<>>, FALSE)
    /\ UNCHANGED <<removeCalled, pipevars>>
    /\ UNCHANGED lifevars

\* Variant of BufReadBatch in which the read consumes the frames it returns.
BufReadBatchDestructive(max) ==
    /\ lastOp' = Op("read", max, readBatchFromDisk(disk, max), <<>>,
                    lastOp.name = "read" /\ lastOp.arg = max)
    /\ disk' = removeBatchFromDisk(disk, max)
    /\ UNCHANGED <<orphan, attached, appended, removeCalled, pipevars>>
    /\ UNCHANGED lifevars

\* FIFOBuffer.ReadBatch
BufReadBatch(max) ==
    /\ lastOp' = Op("read", max, readBatchFromDisk(disk, max), <<>>,
                    lastOp.name = "read" /\ lastOp.arg = max)
    /\ UNCHANGED <<disk, orphan, attached, appended, removeCalled, pipevars>>
    /\ UNCHANGED lifevars

\* FIFOBuffer.RemoveBatch
BufRemoveBatch(n) ==
    /\ disk' = removeBatchFromDisk(disk, n)
    /\ IF RemoveRenames(disk, n)
       THEN attached' = FALSE /\ orphan' = FdFile
       ELSE attached' = attached /\ orphan' = orphan
    /\ lastOp' = Op("remove", n, <<>>, disk, FALSE)
    /\ removeCalled' = TRUE
    /\ UNCHANGED <<appended, pipevars>>
    /\ UNCHANGED lifevars

\* FIFOBuffer.RemoveBatch when one of the file calls it makes fails.
BufRemoveBatchFault(n) ==
    /\ \E step \in RemoveSteps :
          LET r == RemoveOutcome(disk, n, step)
          IN  /\ r.err
              /\ disk' = r.path
              /\ lastOp' = Op("remove-failed", n, <<step>>, disk, FALSE)
    /\ removeCalled' = TRUE
    /\ UNCHANGED <<orphan, attached, appended, pipevars>>
    /\ UNCHANGED lifevars

\* FIFOBuffer.Len
BufLen ==
    /\ lastOp' = Op("len", 0, <<FIFOLen>>, <<>>, FALSE)
    /\ UNCHANGED <<disk, orphan, attached, appended, removeCalled, pipevars>>
    /\ UNCHANGED lifevars

\* FIFOBuffer.SizeBytes
BufSizeBytes ==
    /\ lastOp' = Op("size", 0, <<FIFOSizeBytes>>, <<>>, FALSE)
    /\ UNCHANGED <<disk, orphan, attached, appended, removeCalled, pipevars>>
    /\ UNCHANGED lifevars

BufNext ==
    \/ \E data \in Records : BufAppend(data)
    \/ \E max \in 1..MaxArg : BufReadBatch(max)
    \/ \E n \in 0..MaxArg : BufRemoveBatch(n)
    \/ \E n \in 0..MaxArg : BufRemoveBatchFault(n)
    \/ BufLen
    \/ BufSizeBytes

SpecBuf == BufInit /\ [][BufNext]_vars

\* ------------------------------------------------------------- REDBuffer
\* Variant of REDAppend: the record is dropped and nil is returned.
REDAppendDropping(data) ==
    /\ Len(appended) < MaxAppends
    /\ appended' = Append(appended, data)
    /\ lastOp' = Op("append", 0, <<>>, <<>>, FALSE)
    /\ UNCHANGED <<filevars, removeCalled, pipevars>>
    /\ UNCHANGED lifevars

\* REDBuffer.Append: "return b.fifo.Append(data)"
REDAppend(data) == BufAppend(data)

\* REDBuffer.ReadBatch: "return b.fifo.ReadBatch(max)"
REDReadBatch(max) == BufReadBatch(max)

\* REDBuffer.RemoveBatch: "return b.fifo.RemoveBatch(n)", with its failures.
REDRemoveBatch(n) == BufRemoveBatch(n) \/ BufRemoveBatchFault(n)

\* REDBuffer.Len: "return b.fifo.Len()"
REDLen == BufLen

\* REDBuffer.SizeBytes: "return b.fifo.SizeBytes()"
REDSizeBytes == BufSizeBytes

\* NewREDBuffer: the FIFOBuffer NewFIFOBuffer returns on the path, wrapped.
REDInit == BufInit

REDNext ==
    \/ \E data \in Records : REDAppend(data)
    \/ \E max \in 1..MaxArg : REDReadBatch(max)
    \/ \E n \in 0..MaxArg : REDRemoveBatch(n)
    \/ REDLen
    \/ REDSizeBytes

SpecRED == REDInit /\ [][REDNext]_vars

\* NewFIFOBuffer on a path that holds the residue of an earlier process, which
\* may have been killed inside a write: any prefix of a sequence of frames.
ResidueInit ==
    /\ disk \in UNION {Prefixes(Encode(rs)) : rs \in SeqsUpTo(Records, MaxAppends)}
    /\ orphan = <<>>
    /\ attached = TRUE
    /\ appended = <<>>
    /\ removeCalled = FALSE
    /\ lastOp = NoOp
    /\ PipeIdle
    /\ LifeIdle
    /\ TimeIdle
    /\ DBIdle

ResidueNext ==
    \/ \E max \in 1..MaxArg : BufReadBatch(max)
    \/ \E n \in 0..MaxArg : BufRemoveBatch(n)
    \/ BufLen
    \/ BufSizeBytes

SpecResidue == ResidueInit /\ [][ResidueNext]_vars

\* ------------------------------------------------------- capture manager
SetCaptureDB ==
    /\ ~captureDB
    /\ ipc # "crashed"
    /\ captureDB' = TRUE
    /\ UNCHANGED <<filevars, file, srcOpen, buffer, bufferImpl, stopCh, stopped, ingesting,
                   lastStatus, mu, ret, rdrvars, ingvars, store, histvars>>
    /\ UNCHANGED lifevars

\* The pc the goroutines get from "go cm.captureLoop()" and "go cm.ingestLoop()".
Launched == <<"scan", "check">>

\* Variant of AlreadyRunning in which Start does not look at cm.ingesting.
AlreadyRunningUnchecked == FALSE

\* "if cm.ingesting" at the top of StartSimulatedCapture.
AlreadyRunning == ingesting

\* StartSimulatedCapture.  The model follows one capture: a start that gets
\* past the ingesting check is taken only while no task has been launched.
StartSimulatedCapture ==
    /\ mu = "free"
    /\ ipc # "crashed"
    /\ \/ /\ AlreadyRunning
          /\ ret' = "already-running"
          /\ UNCHANGED <<filevars, file, srcOpen, buffer, bufferImpl, stopCh, stopped,
                         ingesting, lastStatus, rdrvars, ingvars, faults>>
       \/ /\ ~AlreadyRunning /\ rpc = "idle" /\ faults < MaxFaults
          /\ faults' = faults + 1
          /\ ret' = "open-failed"
          /\ UNCHANGED <<filevars, file, srcOpen, buffer, bufferImpl, stopCh, stopped,
                         ingesting, lastStatus, rdrvars, ingvars>>
       \/ /\ ~AlreadyRunning /\ rpc = "idle" /\ faults < MaxFaults
          /\ faults' = faults + 1
          /\ file' = TRUE /\ srcOpen' = FALSE
          /\ buffer' = <<>>
          /\ stopCh' = "open"
          /\ stopped' = FALSE
          /\ ingesting' = TRUE
          /\ lastStatus' = ZeroStatus
          /\ bufferImpl' = "typednil"
          /\ ret' = "open-failed"
          /\ UNCHANGED <<filevars, rdrvars, ingvars>>
       \/ /\ ~AlreadyRunning /\ rpc = "idle"
          /\ file' = TRUE /\ srcOpen' = TRUE
          /\ buffer' = <<>>
          /\ stopCh' = "open"
          /\ stopped' = FALSE
          /\ ingesting' = TRUE
          /\ lastStatus' = ZeroStatus
          /\ bufferImpl' = "fifo"
          /\ attached' = TRUE
          /\ rpc' = Launched[1] /\ ipc' = Launched[2]
          /\ ret' = "ok"
          /\ UNCHANGED <<disk, orphan, rpos, batch, ingested, errs, rem, faults>>
    /\ UNCHANGED <<mu, captureDB, store, appended, removeCalled, lastOp, batchSrc, attempt>>
    /\ UNCHANGED lifevars

\* StopSimulatedCapture.  Close on the nil *FIFOBuffer a failed NewFIFOBuffer
\* left in cm.bufferImpl dereferences nil while cm.mu is held.
StopSimulatedCapture ==
    /\ mu = "free"
    /\ ipc # "crashed"
    /\ IF stopped
       THEN UNCHANGED <<mgrvars>>
       ELSE /\ stopped' = TRUE
            /\ stopCh' = IF stopCh = "open" THEN "closed" ELSE stopCh
            /\ file' = FALSE
            /\ srcOpen' = FALSE
            /\ IF bufferImpl = "typednil"
               THEN mu' = "dead" /\ UNCHANGED <<bufferImpl, ingesting>>
               ELSE mu' = mu /\ bufferImpl' = "nil" /\ ingesting' = FALSE
            /\ UNCHANGED <<buffer, lastStatus, captureDB, ret>>
    /\ UNCHANGED <<filevars, rdrvars, ingvars, store, histvars>>
    /\ UNCHANGED lifevars

\* ------------------------------------------------------------ captureLoop
\* Variant of ScanErrStatus: the error of the scanner is dropped.
ScanErrIgnored(s) == s

\* "if err := scanner.Err(); err != nil { cm.lastStatus.LastError = err.Error() }"
ScanErrStatus(s) == [s EXCEPT !.LastError = Err("scan", 0)]

\* scanner.Scan(), the select on stopCh, and the scanner.Err() that follows the
\* loop.  The scanner reads ahead: once it has read, it can still return lines
\* after the file was closed.  A read of the source fails when the file was
\* closed, or with an I/O error.
ReaderScan ==
    /\ rpc = "scan"
    /\ ipc # "crashed"
    /\ \/ /\ rpos < Len(Log) /\ (srcOpen \/ rpos > 0)
          /\ rpos' = rpos + 1
          /\ rpc' = IF stopCh = "closed" THEN "done" ELSE "append"
          /\ UNCHANGED <<lastStatus, faults>>
       \/ /\ rpos = Len(Log) /\ srcOpen
          /\ rpc' = "done"
          /\ UNCHANGED <<rpos, lastStatus, faults>>
       \/ /\ ~srcOpen /\ mu = "free"
          /\ rpc' = "done"
          /\ lastStatus' = ScanErrStatus(lastStatus)
          /\ UNCHANGED <<rpos, faults>>
       \/ /\ srcOpen /\ mu = "free" /\ faults < MaxFaults
          /\ faults' = faults + 1
          /\ rpc' = "done"
          /\ lastStatus' = ScanErrStatus(lastStatus)
          /\ UNCHANGED rpos
    /\ UNCHANGED <<filevars, file, srcOpen, buffer, bufferImpl, stopCh, stopped, ingesting,
                   mu, captureDB, ret, ingvars, store, appended, removeCalled, lastOp,
                   batchSrc, attempt>>
    /\ UNCHANGED lifevars

\* cm.mu.Lock(); then the first f.Write of writeLengthPrefixed (the length), or
\* the append to cm.buffer and the unlock when cm.bufferImpl is nil.  When the
\* write fails Append returns the error to a caller that drops it: the loop
\* unlocks and scans the next line.
ReaderAppend ==
    /\ rpc = "append"
    /\ ipc # "crashed"
    /\ mu = "free"
    /\ \/ /\ bufferImpl = "nil"
          /\ buffer' = Append(buffer, Log[rpos])
          /\ rpc' = "scan"
          /\ UNCHANGED <<filevars, mu, faults>>
       \/ /\ bufferImpl # "nil"
          /\ WriteFd(EncodeLen(Len(Log[rpos])))
          /\ mu' = "reader"
          /\ rpc' = "data"
          /\ UNCHANGED <<attached, buffer, faults>>
       \/ /\ bufferImpl # "nil" /\ faults < MaxFaults
          /\ faults' = faults + 1
          /\ rpc' = "scan"
          /\ UNCHANGED <<filevars, mu, buffer>>
    /\ UNCHANGED <<file, srcOpen, bufferImpl, stopCh, stopped, ingesting, lastStatus,
                   captureDB, ret, rpos, ingvars, store, appended, removeCalled, lastOp,
                   batchSrc, attempt>>
    /\ UNCHANGED lifevars

\* The second f.Write of writeLengthPrefixed (the data), and cm.mu.Unlock().
ReaderData ==
    /\ rpc = "data"
    /\ ipc # "crashed"
    /\ WriteFd(Log[rpos])
    /\ mu' = "free"
    /\ rpc' = "scan"
    /\ appended' = Append(appended, Log[rpos])
    /\ UNCHANGED <<attached, file, srcOpen, buffer, bufferImpl, stopCh, stopped, ingesting,
                   lastStatus, captureDB, ret, rpos, ingvars, store, faults, removeCalled,
                   lastOp, batchSrc, attempt>>
    /\ UNCHANGED lifevars

\* ------------------------------------------------------------- ingestLoop
\* The stop check at the top of the loop.
IngestCheck ==
    /\ ipc = "check"
    /\ mu = "free"
    /\ IF stopped
       THEN ingesting' = FALSE /\ ipc' = "done"
       ELSE ingesting' = ingesting /\ ipc' = "read"
    /\ UNCHANGED <<filevars, file, srcOpen, buffer, bufferImpl, stopCh, stopped, lastStatus,
                   mu, captureDB, ret, rdrvars, batch, ingested, errs, rem, store, histvars>>
    /\ UNCHANGED lifevars

\* Variant of EmptyBatch: the loop does not look at the length of the batch.
EmptyBatchUnchecked(b) == FALSE

\* "if len(batch) == 0"
EmptyBatch(b) == b = <<>>

\* What follows the read of a batch b: the idle sleep for an empty batch, the
\* "captureDB not set" error, or the transaction.
AfterRead(b) ==
    /\ batch' = b
    /\ IF EmptyBatch(b)
       THEN ipc' = "check" /\ UNCHANGED lastStatus
       ELSE IF ~captureDB
            THEN /\ mu = "free"
                 /\ lastStatus' = [lastStatus EXCEPT !.LastError = Err("captureDB not set", 0)]
                 /\ ipc' = "check"
            ELSE ipc' = "tx" /\ UNCHANGED lastStatus

\* The ingester reads cm.bufferImpl without cm.mu, once for "!= nil" and once
\* for the call, while StopSimulatedCapture closes the buffer and stores nil:
\* a stop between the two reads, or one the ingester does not see yet, has the
\* call made on the buffer that was closed, or on nil, which panics.  A panic
\* of a goroutine ends the process: ipc = "crashed" and no step follows.
StaleBufferImpl == bufferImpl = "nil" /\ stopped

\* cm.bufferImpl.ReadBatch(256), or the in-memory batch when cm.bufferImpl is nil.
IngestRead ==
    /\ ipc = "read"
    /\ \/ /\ bufferImpl # "nil" /\ faults < MaxFaults /\ mu = "free"
          /\ faults' = faults + 1
          /\ lastStatus' = [lastStatus EXCEPT !.LastError = Err("read", 0)]
          /\ ipc' = "check"
          /\ UNCHANGED <<buffer, batch, batchSrc>>
       \/ /\ bufferImpl # "nil"
          /\ AfterRead(readBatchFromDisk(disk, MaxBatch))
          /\ batchSrc' = "disk"
          /\ UNCHANGED <<buffer, faults>>
       \/ /\ bufferImpl = "nil" /\ mu = "free"
          /\ AfterRead(buffer)
          /\ buffer' = <<>>
          /\ batchSrc' = "mem"
          /\ UNCHANGED faults
       \/ /\ StaleBufferImpl
          /\ AfterRead(readBatchFromDisk(disk, MaxBatch))
          /\ batchSrc' = "closed"
          /\ UNCHANGED <<buffer, faults>>
       \/ /\ StaleBufferImpl
          /\ ipc' = "crashed"
          /\ UNCHANGED <<buffer, batch, lastStatus, batchSrc, faults>>
    /\ UNCHANGED <<filevars, file, srcOpen, bufferImpl, stopCh, stopped, ingesting, mu,
                   captureDB, ret, rdrvars, ingested, errs, rem, store, appended,
                   removeCalled, lastOp, attempt>>
    /\ UNCHANGED lifevars

\* The rows of the records of b whose Exec did not fail, in batch order.
RECURSIVE Inserted(_, _, _)
Inserted(b, failed, i) ==
    IF i > Len(b) THEN <<>>
    ELSE (IF i \in failed THEN <<>> ELSE <<Row(b[i])>>) \o Inserted(b, failed, i + 1)

\* Variant of TxFailNext with no "continue" after the failure, the loop body goes on.
TxFailFallsThrough == "remove"

\* Where the loop goes after a failed Begin, Prepare or Commit: "continue".
TxFailNext == "check"

TxFailed(what) ==
    /\ faults < MaxFaults /\ mu = "free"
    /\ faults' = faults + 1
    /\ lastStatus' = [lastStatus EXCEPT !.LastError = Err(what, 0)]
    /\ ipc' = TxFailNext
    /\ attempt' = [res |-> what, batch |-> batch, src |-> batchSrc, fails |-> {},
                   prev |-> attempt.res, rm |-> "none"]
    /\ UNCHANGED <<store, ingested, errs>>

\* captureDB.Begin, tx.Prepare, one stmt.Exec per record, tx.Commit.
IngestTx ==
    /\ ipc = "tx"
    /\ \/ TxFailed("begin")
       \/ TxFailed("prepare")
       \/ \E failed \in SUBSET (1..Len(batch)) :
            /\ faults + Cardinality(failed) < MaxFaults
            /\ faults' = faults + Cardinality(failed) + 1
            /\ mu = "free"
            /\ lastStatus' = [lastStatus EXCEPT !.LastError = Err("commit", 0)]
            /\ ipc' = TxFailNext
            /\ ingested' = Len(batch) - Cardinality(failed)
            /\ errs' = Cardinality(failed)
            /\ attempt' = [res |-> "commit", batch |-> batch, src |-> batchSrc,
                           fails |-> failed, prev |-> attempt.res, rm |-> "none"]
            /\ UNCHANGED store
       \/ \E failed \in SUBSET (1..Len(batch)) :
            /\ faults + Cardinality(failed) <= MaxFaults
            /\ faults' = faults + Cardinality(failed)
            /\ store' = store \o Inserted(batch, failed, 1)
            /\ ingested' = Len(batch) - Cardinality(failed)
            /\ errs' = Cardinality(failed)
            /\ ipc' = "remove"
            /\ attempt' = [res |-> "ok", batch |-> batch, src |-> batchSrc,
                           fails |-> failed, prev |-> attempt.res, rm |-> "none"]
            /\ UNCHANGED lastStatus
    /\ UNCHANGED <<filevars, file, srcOpen, buffer, bufferImpl, stopCh, stopped, ingesting,
                   mu, captureDB, ret, rdrvars, batch, rem, appended, removeCalled, lastOp,
                   batchSrc>>
    /\ UNCHANGED lifevars

\* "if cm.bufferImpl != nil { cm.bufferImpl.RemoveBatch(len(batch)) }", up to
\* the os.Stat of removeBatchFromDisk and, for a shorter offset, io.ReadAll.
IngestRemove ==
    /\ ipc = "remove"
    /\ \/ /\ bufferImpl = "nil"
          /\ ipc' = "update"
          /\ attempt' = [attempt EXCEPT !.rm = "skipped"]
          /\ UNCHANGED <<rem, faults, removeCalled>>
       \/ /\ bufferImpl # "nil" \/ StaleBufferImpl
          /\ removeCalled' = TRUE
          /\ \/ /\ faults < MaxFaults
                /\ faults' = faults + 1
                /\ ipc' = "update"
                /\ attempt' = [attempt EXCEPT !.rm = "failed"]
                /\ UNCHANGED rem
             \/ /\ LET offset == ScanOffset(disk, 0, Len(batch))
                   IN  IF offset >= Len(disk)
                       THEN ipc' = "trunc" /\ rem' = rem
                       ELSE ipc' = "rename" /\ rem' = Remainder(disk, offset)
                /\ UNCHANGED <<faults, attempt>>
       \/ /\ StaleBufferImpl
          /\ ipc' = "crashed"
          /\ UNCHANGED <<rem, faults, removeCalled, attempt>>
    /\ UNCHANGED <<filevars, mgrvars, rdrvars, batch, ingested, errs, store, appended, lastOp,
                   batchSrc>>
    /\ UNCHANGED lifevars

\* os.Truncate(path, 0)
IngestTruncate ==
    /\ ipc = "trunc"
    /\ \/ /\ faults < MaxFaults
          /\ faults' = faults + 1
          /\ attempt' = [attempt EXCEPT !.rm = "failed"]
          /\ UNCHANGED disk
       \/ /\ disk' = <<>>
          /\ attempt' = [attempt EXCEPT !.rm = "ok"]
          /\ UNCHANGED faults
    /\ ipc' = "update"
    /\ UNCHANGED <<orphan, attached, mgrvars, rdrvars, batch, ingested, errs, rem, store,
                   appended, removeCalled, lastOp, batchSrc>>
    /\ UNCHANGED lifevars

\* os.Create(path + ".tmp"), tmp.Write(rem), os.Rename(tmpPath, path): the path
\* now names the new file, the buffer's descriptor still the old one.
IngestRename ==
    /\ ipc = "rename"
    /\ \/ /\ faults < MaxFaults
          /\ faults' = faults + 1
          /\ attempt' = [attempt EXCEPT !.rm = "failed"]
          /\ UNCHANGED filevars
       \/ /\ disk' = rem
          /\ orphan' = FdFile
          /\ attached' = FALSE
          /\ attempt' = [attempt EXCEPT !.rm = "ok"]
          /\ UNCHANGED faults
    /\ ipc' = "update"
    /\ UNCHANGED <<mgrvars, rdrvars, batch, ingested, errs, rem, store, appended,
                   removeCalled, lastOp, batchSrc>>
    /\ UNCHANGED lifevars

\* The status update that ends an iteration.
IngestUpdate ==
    /\ ipc = "update"
    /\ mu = "free"
    /\ lastStatus' = [Ingested |-> lastStatus.Ingested + ingested,
                      ErrorCount |-> lastStatus.ErrorCount + errs,
                      LastError |-> IF errs > 0 THEN Err("ingestion errors", errs)
                                    ELSE lastStatus.LastError]
    /\ ipc' = "check"
    /\ batch' = <<>> /\ ingested' = 0 /\ errs' = 0 /\ rem' = <<>>
    /\ UNCHANGED <<filevars, file, srcOpen, buffer, bufferImpl, stopCh, stopped, ingesting,
                   mu, captureDB, ret, rdrvars, store, histvars>>
    /\ UNCHANGED lifevars

Init ==
    /\ disk = <<>>
    /\ orphan = <<>>
    /\ attached = FALSE
    /\ appended = <<>>
    /\ removeCalled = FALSE
    /\ lastOp = NoOp
    /\ PipeIdle
    /\ LifeIdle
    /\ TimeIdle
    /\ DBIdle

Next ==
    \/ SetCaptureDB
    \/ StartSimulatedCapture
    \/ StopSimulatedCapture
    \/ ReaderScan
    \/ ReaderAppend
    \/ ReaderData
    \/ IngestCheck
    \/ IngestRead
    \/ IngestTx
    \/ IngestRemove
    \/ IngestTruncate
    \/ IngestRename
    \/ IngestUpdate

Spec == Init /\ [][Next]_vars

\* ------------------------------------------- the manager across captures
\* Captures started one after another on the same manager and buffer file.
\* Each successful Start launches its own reader and ingester.  Here a buffer
\* call (Append, ReadBatch, RemoveBatch) is one step, the ingester's
\* transaction is one step with the ReadBatch before it, and of the calls that
\* can fail only the two opens of Start do.

\* What an earlier process left in the buffer file: records that are no line
\* of the source log.
ResidueRecs == [i \in 1..MaxResidue |-> <<80 + i>>]

\* The source log each capture of the lifecycle reads: the head of Log.
LifeLog == SubSeq(Log, 1, Min(MaxLifeLines, Len(Log)))

LifeInit ==
    /\ \E k \in 0..MaxResidue :
          /\ residue = Take(ResidueRecs, k)
          /\ disk = Encode(Take(ResidueRecs, k))
    /\ orphan = <<>>
    /\ attached = FALSE
    /\ appended = <<>>
    /\ removeCalled = FALSE
    /\ lastOp = NoOp
    /\ file = FALSE
    /\ srcOpen = FALSE
    /\ buffer = <<>>
    /\ bufferImpl = "nil"
    /\ stopCh = "nil"
    /\ stopped = FALSE
    /\ ingesting = FALSE
    /\ lastStatus = ZeroStatus
    /\ mu = "free"
    /\ captureDB = TRUE
    /\ ret = "none"
    /\ rpc = "idle"
    /\ rpos = 0
    /\ ipc = "idle"
    /\ batch = <<>>
    /\ ingested = 0
    /\ errs = 0
    /\ rem = <<>>
    /\ store = <<>>
    /\ faults = 0
    /\ batchSrc = "none"
    /\ attempt = NoAttempt
    /\ gen = 0
    /\ rd = [g \in 1..MaxGen |-> NoReader]
    /\ ig = [g \in 1..MaxGen |-> NoIngester]
    /\ obs = NoObs
    /\ TimeIdle
    /\ DBIdle

\* What the lifecycle actions leave alone: the single-capture task state, the
\* histories of the buffer operations and the timed log.
lifeframe == <<rdrvars, ingvars, appended, removeCalled, lastOp, batchSrc, attempt, residue,
               timevars, dbvars>>

\* StartSimulatedCapture on a manager that may have run captures before.
StartCapture ==
    /\ mu = "free"
    /\ \/ /\ AlreadyRunning
          /\ ret' = "already-running"
          /\ UNCHANGED <<filevars, file, srcOpen, buffer, bufferImpl, stopCh, stopped,
                         ingesting, lastStatus, gen, rd, ig>>
       \/ /\ ~AlreadyRunning
          /\ ret' = "open-failed"
          /\ UNCHANGED <<filevars, file, srcOpen, buffer, bufferImpl, stopCh, stopped,
                         ingesting, lastStatus, gen, rd, ig>>
       \/ /\ ~AlreadyRunning
          /\ file' = TRUE /\ srcOpen' = FALSE
          /\ buffer' = <<>>
          /\ stopCh' = "open"
          /\ stopped' = FALSE
          /\ ingesting' = TRUE
          /\ lastStatus' = ZeroStatus
          /\ bufferImpl' = "typednil"
          /\ ret' = "open-failed"
          /\ UNCHANGED <<filevars, gen, rd, ig>>
       \/ /\ ~AlreadyRunning /\ gen < MaxGen
          /\ file' = TRUE /\ srcOpen' = TRUE
          /\ buffer' = <<>>
          /\ stopCh' = "open"
          /\ stopped' = FALSE
          /\ ingesting' = TRUE
          /\ lastStatus' = ZeroStatus
          /\ bufferImpl' = "fifo"
          /\ attached' = TRUE /\ orphan' = <<>>
          /\ gen' = gen + 1
          /\ rd' = [rd EXCEPT ![gen + 1] = [pc |-> "scan", pos |-> 0, open |-> TRUE]]
          /\ ig' = [ig EXCEPT ![gen + 1] = [NoIngester EXCEPT !.pc = "check"]]
          /\ ret' = "ok"
          /\ UNCHANGED disk
    /\ obs' = NoObs
    /\ UNCHANGED <<mu, captureDB, store, faults, lifeframe>>

\* StopSimulatedCapture: cm.file.Close() closes the source of the reader of
\* the last capture.
StopCapture ==
    /\ mu = "free"
    /\ IF stopped
       THEN UNCHANGED <<mgrvars, rd>>
       ELSE /\ stopped' = TRUE
            /\ stopCh' = IF stopCh = "open" THEN "closed" ELSE stopCh
            /\ file' = FALSE
            /\ srcOpen' = FALSE
            /\ rd' = IF srcOpen THEN [rd EXCEPT ![gen].open = FALSE] ELSE rd
            /\ IF bufferImpl = "typednil"
               THEN mu' = "dead" /\ UNCHANGED <<bufferImpl, ingesting>>
               ELSE mu' = mu /\ bufferImpl' = "nil" /\ ingesting' = FALSE
            /\ UNCHANGED <<buffer, lastStatus, captureDB, ret>>
    /\ UNCHANGED <<filevars, store, faults, gen, ig, lifeframe>>
    /\ obs' = NoObs

\* The value GetCaptureStatus returns: a copy of cm.lastStatus with BufferLen,
\* Ingesting, Stopped and DiskBufferBytes filled in.
StatusSnapshot ==
    [kind |-> "status", Ingested |-> lastStatus.Ingested,
     ErrorCount |-> lastStatus.ErrorCount, LastError |-> lastStatus.LastError,
     BufferLen |-> Len(buffer), Ingesting |-> ingesting, Stopped |-> stopped,
     DiskBufferBytes |-> IF bufferImpl = "nil" THEN 0 ELSE FIFOSizeBytes]

\* GetCaptureStatus, with the mutex held from start to end.  SizeBytes on the
\* nil *FIFOBuffer a failed NewFIFOBuffer left in cm.bufferImpl dereferences
\* nil: the call panics, and the deferred Unlock releases the mutex.
GetCaptureStatus ==
    /\ mu = "free"
    /\ obs' = IF bufferImpl = "typednil" THEN [kind |-> "panic"] ELSE StatusSnapshot
    /\ UNCHANGED <<filevars, mgrvars, store, faults, gen, rd, ig, lifeframe>>

\* The goroutines that are started and have not returned.
LiveReaders == {g \in 1..MaxGen : rd[g].pc \in {"scan", "append"}}

LiveIngesters == {g \in 1..MaxGen : ig[g].pc \notin {"none", "done"}}

\* A goroutine that calls a method of the nil *FIFOBuffer panics, which ends
\* the process: no task takes another step and no call is served.
Crash ==
    /\ mu' = "dead"
    /\ rd' = [g \in 1..MaxGen |-> IF g \in LiveReaders THEN [rd[g] EXCEPT !.pc = "done"]
                                  ELSE rd[g]]
    /\ ig' = [g \in 1..MaxGen |-> IF g \in LiveIngesters THEN [ig[g] EXCEPT !.pc = "done"]
                                  ELSE ig[g]]

\* captureLoop of capture g: scanner.Scan(), the select on cm.stopCh, and the
\* scanner.Err() after the loop.  The reader of an earlier capture reads the
\* field cm.stopCh without the mutex while a later Start has replaced it: it
\* may see the channel of its own capture, which is closed, or the new one.
CaptureScan(g) ==
    /\ rd[g].pc = "scan"
    /\ \/ /\ rd[g].pos < Len(LifeLog) /\ (rd[g].open \/ rd[g].pos > 0)
          /\ \E seesClosed \in {stopCh = "closed"} \cup (IF g < gen THEN {TRUE} ELSE {}) :
                rd' = [rd EXCEPT ![g].pos = @ + 1,
                                 ![g].pc = IF seesClosed THEN "done" ELSE "append"]
          /\ UNCHANGED lastStatus
       \/ /\ rd[g].pos = Len(LifeLog) /\ rd[g].open
          /\ rd' = [rd EXCEPT ![g].pc = "done"]
          /\ UNCHANGED lastStatus
       \/ /\ ~rd[g].open /\ mu = "free"
          /\ rd' = [rd EXCEPT ![g].pc = "done"]
          /\ lastStatus' = ScanErrStatus(lastStatus)
    /\ UNCHANGED <<filevars, file, srcOpen, buffer, bufferImpl, stopCh, stopped, ingesting,
                   mu, captureDB, ret, store, faults, gen, ig, lifeframe>>
    /\ obs' = NoObs

\* captureLoop of capture g: the append of the line under the mutex, to the
\* buffer cm.bufferImpl holds now or to cm.buffer.
CaptureAppend(g) ==
    /\ rd[g].pc = "append"
    /\ mu = "free"
    /\ IF bufferImpl = "typednil"
       THEN Crash /\ UNCHANGED <<filevars, buffer>>
       ELSE /\ IF bufferImpl = "nil"
               THEN buffer' = Append(buffer, LifeLog[rd[g].pos]) /\ UNCHANGED filevars
               ELSE /\ WriteFd(writeLengthPrefixed(LifeLog[rd[g].pos]))
                    /\ UNCHANGED <<attached, buffer>>
            /\ rd' = [rd EXCEPT ![g].pc = "scan"]
            /\ UNCHANGED <<mu, ig>>
    /\ UNCHANGED <<file, srcOpen, bufferImpl, stopCh, stopped, ingesting, lastStatus,
                   captureDB, ret, store, faults, gen, lifeframe>>
    /\ obs' = NoObs

\* ingestLoop of capture g: the stop check at the top of the loop.
IngestLoopCheck(g) ==
    /\ ig[g].pc = "check"
    /\ mu = "free"
    /\ IF stopped
       THEN ingesting' = FALSE /\ ig' = [ig EXCEPT ![g].pc = "done"]
       ELSE ingesting' = ingesting /\ ig' = [ig EXCEPT ![g].pc = "read"]
    /\ UNCHANGED <<filevars, file, srcOpen, buffer, bufferImpl, stopCh, stopped, lastStatus,
                   mu, captureDB, ret, store, faults, gen, rd, lifeframe>>
    /\ obs' = NoObs

\* What follows the read of a batch b by the ingester of capture g: the idle
\* sleep, the "captureDB not set" error, or the transaction, in which Begin,
\* Prepare, every Exec and Commit succeed.
IngestLoopAfterRead(g, b) ==
    IF b = <<>>
    THEN ig' = [ig EXCEPT ![g].pc = "check"] /\ UNCHANGED <<lastStatus, store>>
    ELSE IF ~captureDB
         THEN /\ mu = "free"
              /\ lastStatus' = [lastStatus EXCEPT !.LastError = Err("captureDB not set", 0)]
              /\ ig' = [ig EXCEPT ![g].pc = "check"]
              /\ UNCHANGED store
         ELSE /\ store' = store \o Inserted(b, {}, 1)
              /\ ig' = [ig EXCEPT ![g].pc = "remove", ![g].n = Len(b)]
              /\ UNCHANGED lastStatus

\* ingestLoop of capture g: ReadBatch on the buffer cm.bufferImpl holds now, or
\* the in-memory batch when it is nil, and the transaction for the batch.
IngestLoopRead(g) ==
    /\ ig[g].pc = "read"
    /\ IF bufferImpl = "typednil"
       THEN Crash /\ UNCHANGED <<buffer, lastStatus, store>>
       ELSE /\ IF bufferImpl = "fifo"
               THEN /\ IngestLoopAfterRead(g, readBatchFromDisk(disk, MaxBatch))
                    /\ UNCHANGED buffer
               ELSE /\ mu = "free"
                    /\ IngestLoopAfterRead(g, buffer)
                    /\ buffer' = <<>>
            /\ UNCHANGED <<mu, rd>>
    /\ UNCHANGED <<filevars, file, srcOpen, bufferImpl, stopCh, stopped, ingesting,
                   captureDB, ret, faults, gen, lifeframe>>
    /\ obs' = NoObs

\* ingestLoop of capture g: RemoveBatch(len(batch)) unless cm.bufferImpl is nil.
IngestLoopRemove(g) ==
    /\ ig[g].pc = "remove"
    /\ IF bufferImpl = "typednil"
       THEN Crash /\ UNCHANGED filevars
       ELSE /\ IF bufferImpl = "nil"
               THEN UNCHANGED filevars
               ELSE /\ disk' = removeBatchFromDisk(disk, ig[g].n)
                    /\ IF RemoveRenames(disk, ig[g].n)
                       THEN attached' = FALSE /\ orphan' = FdFile
                       ELSE attached' = attached /\ orphan' = orphan
            /\ ig' = [ig EXCEPT ![g].pc = "update"]
            /\ UNCHANGED <<mu, rd>>
    /\ UNCHANGED <<file, srcOpen, buffer, bufferImpl, stopCh, stopped, ingesting, lastStatus,
                   captureDB, ret, store, faults, gen, lifeframe>>
    /\ obs' = NoObs

\* ingestLoop of capture g: the status update that ends an iteration.
IngestLoopUpdate(g) ==
    /\ ig[g].pc = "update"
    /\ mu = "free"
    /\ lastStatus' = [lastStatus EXCEPT !.Ingested = @ + ig[g].n]
    /\ ig' = [ig EXCEPT ![g] = [NoIngester EXCEPT !.pc = "check"]]
    /\ UNCHANGED <<filevars, file, srcOpen, buffer, bufferImpl, stopCh, stopped, ingesting,
                   mu, captureDB, ret, store, faults, gen, rd, lifeframe>>
    /\ obs' = NoObs

LifeNext ==
    \/ StartCapture
    \/ StopCapture
    \/ GetCaptureStatus
    \/ \E g \in 1..MaxGen : CaptureScan(g)
    \/ \E g \in 1..MaxGen : CaptureAppend(g)
    \/ \E g \in 1..MaxGen : IngestLoopCheck(g)
    \/ \E g \in 1..MaxGen : IngestLoopRead(g)
    \/ \E g \in 1..MaxGen : IngestLoopRemove(g)
    \/ \E g \in 1..MaxGen : IngestLoopUpdate(g)

SpecLife == LifeInit /\ [][LifeNext]_vars

\* ------------------------------------------------- captureLoop: the timing
\* A line of the source: whether it holds a space or a tab, whether the text
\* before the first of them parses as a float, and the seconds it then gives;
\* and whether it is too long for the buffer of the bufio.Scanner, which
\* captureLoop creates with its default size.
TimedLines ==
    {[blank |-> TRUE, num |-> TRUE, ts |-> t, long |-> FALSE] : t \in 0..MaxStamp}
        \cup {[blank |-> TRUE, num |-> FALSE, ts |-> 0, long |-> FALSE],
              [blank |-> FALSE, num |-> TRUE, ts |-> 0, long |-> FALSE],
              [blank |-> FALSE, num |-> FALSE, ts |-> 0, long |-> TRUE]}

RECURSIVE LogsOfLen(_)
LogsOfLen(n) ==
    IF n = 0 THEN {<<>>} ELSE {Append(l, x) : l \in LogsOfLen(n - 1), x \in TimedLines}

\* "parsed": the loop over the bytes of the line stops at the first blank and
\* parses what precedes it; a line without blank is never parsed.
Parsed(line) == line.blank /\ line.num

\* Variant of SleepFor: every positive delta is slept in full.
SleepForUncapped(delta) ==
    IF delta > 0 THEN delta ELSE 0

\* "if delta > 0 && delta < 10 { time.Sleep(delta seconds) }": the seconds slept.
SleepFor(delta) ==
    IF delta > 0 /\ delta < SleepCap THEN delta ELSE 0

\* The manager after a StartSimulatedCapture that returned nil; of the two
\* tasks it launched this specification follows the reader.
TimingInit ==
    /\ disk = <<>>
    /\ orphan = <<>>
    /\ attached = TRUE
    /\ appended = <<>>
    /\ removeCalled = FALSE
    /\ lastOp = NoOp
    /\ file = TRUE
    /\ srcOpen = TRUE
    /\ buffer = <<>>
    /\ bufferImpl = "fifo"
    /\ stopCh = "open"
    /\ stopped = FALSE
    /\ ingesting = TRUE
    /\ lastStatus = ZeroStatus
    /\ mu = "free"
    /\ captureDB = FALSE
    /\ ret = "ok"
    /\ rpc = Launched[1]
    /\ rpos = 0
    /\ ipc = "idle"
    /\ batch = <<>>
    /\ ingested = 0
    /\ errs = 0
    /\ rem = <<>>
    /\ store = <<>>
    /\ faults = 0
    /\ batchSrc = "none"
    /\ attempt = NoAttempt
    /\ LifeIdle
    /\ DBIdle
    /\ tlog \in LogsOfLen(MaxTimed)
    /\ tpos = 0
    /\ lastTimestamp = 0
    /\ first = TRUE
    /\ slept = 0

\* Variant of NextTimestamp: the reference is assigned outside "if parsed".
NextTimestampUnguarded(line, last) == line.ts

\* "lastTimestamp" after a line: both branches of "if parsed" assign ts to it,
\* a line that is not parsed leaves it alone.
NextTimestamp(line, last) ==
    IF Parsed(line) THEN line.ts ELSE last

\* One turn of the loop of captureLoop on tlog up to the end of the sleep:
\* scanner.Scan(), the select on cm.stopCh, the parse of the timestamp and the
\* sleep; or the end of the loop and the scanner.Err() that follows it.  For a
\* line that does not fit the buffer of the scanner Scan returns false and
\* Err returns bufio.ErrTooLong.
TimedLine ==
    /\ rpc = "scan"
    /\ \/ /\ tpos < Len(tlog) /\ ~tlog[tpos + 1].long /\ (srcOpen \/ tpos > 0)
          /\ tpos' = tpos + 1
          /\ IF stopCh = "closed"
             THEN rpc' = "done" /\ slept' = 0 /\ UNCHANGED <<lastTimestamp, first>>
             ELSE LET line == tlog[tpos + 1]
                  IN  /\ slept' = IF Parsed(line) /\ ~first
                                  THEN SleepFor(line.ts - lastTimestamp) ELSE 0
                      /\ lastTimestamp' = NextTimestamp(line, lastTimestamp)
                      /\ first' = (first /\ ~Parsed(line))
                      /\ rpc' = "append"
          /\ UNCHANGED lastStatus
       \/ /\ tpos < Len(tlog) /\ tlog[tpos + 1].long /\ mu = "free"
          /\ rpc' = "done"
          /\ lastStatus' = ScanErrStatus(lastStatus)
          /\ slept' = 0
          /\ UNCHANGED <<tpos, lastTimestamp, first>>
       \/ /\ tpos = Len(tlog) /\ srcOpen
          /\ rpc' = "done"
          /\ slept' = 0
          /\ UNCHANGED <<tpos, lastTimestamp, first, lastStatus>>
       \/ /\ ~srcOpen /\ (tpos = 0 \/ tpos = Len(tlog)) /\ mu = "free"
          /\ rpc' = "done"
          /\ lastStatus' = ScanErrStatus(lastStatus)
          /\ slept' = 0
          /\ UNCHANGED <<tpos, lastTimestamp, first>>
    /\ UNCHANGED <<tlog, filevars, file, srcOpen, buffer, bufferImpl, stopCh, stopped,
                   ingesting, mu, captureDB, ret, rpos, ingvars, store, histvars, taskvars,
                   dbvars>>

\* The append of the line the sleep was for, under cm.mu: to the buffer object,
\* or to cm.buffer when cm.bufferImpl is nil.  The bytes of the buffer file are
\* not followed here: appended holds the lines given to the buffer object.
TimedAppend ==
    /\ rpc = "append"
    /\ mu = "free"
    /\ rpc' = "scan"
    /\ IF bufferImpl = "nil"
       THEN buffer' = Append(buffer, tlog[tpos]) /\ UNCHANGED appended
       ELSE appended' = Append(appended, tlog[tpos]) /\ UNCHANGED buffer
    /\ UNCHANGED <<filevars, file, srcOpen, bufferImpl, stopCh, stopped, ingesting, lastStatus,
                   mu, captureDB, ret, rpos, ingvars, store, faults, removeCalled, lastOp,
                   batchSrc, attempt, lifevars>>

TimingNext ==
    \/ TimedLine
    \/ TimedAppend
    \/ StopSimulatedCapture

SpecTiming == TimingInit /\ [][TimingNext]_vars

\* ------------------------------------------------- the database handlers
MaxRows == 2
MaxId == 3
MaxEvents == 2
MaxTime == 2

Names == {"TestCo", "NewName"}

Ids == 1..(MaxId + 1)

Sources == {"capture", "strace"}

Types == {"stream", "read"}

Payloads == {"p", "q"}

Max(S) == CHOOSE x \in S : \A y \in S : y <= x

\* The id an INSERT gives a row of manufacturer, "id INTEGER PRIMARY KEY": one
\* above the highest id in the table.
NextRowId(t) == IF t = {} THEN 1 ELSE Max({r.id : r \in t}) + 1

\* Variant of Where: the statement has no WHERE clause.
WhereAll(t, id) == t

\* "WHERE id = ?": the rows of t the statement applies to.
Where(t, id) == {r \in t : r.id = id}

\* CreateManufacturer: INSERT INTO manufacturer (name) VALUES (?), LastInsertId.
CreateManufacturer(name) ==
    /\ Cardinality(manufacturer) < MaxRows
    /\ NextRowId(manufacturer) <= MaxId
    /\ manufacturer' = manufacturer \cup {[id |-> NextRowId(manufacturer), name |-> name]}
    /\ dbret' = [op |-> "create", name |-> name, id |-> NextRowId(manufacturer)]

\* GetManufacturer: SELECT id, name FROM manufacturer WHERE id = ?; row.Scan
\* fails with sql.ErrNoRows when there is no row.
GetManufacturer(id) ==
    /\ IF Where(manufacturer, id) = {}
       THEN dbret' = [op |-> "get", id |-> id, err |-> TRUE]
       ELSE \E r \in Where(manufacturer, id) :
                dbret' = [op |-> "get", id |-> id, err |-> FALSE, name |-> r.name]
    /\ UNCHANGED manufacturer

\* UpdateManufacturer: UPDATE manufacturer SET name = ? WHERE id = ?
UpdateManufacturer(id, name) ==
    /\ manufacturer' = (manufacturer \ Where(manufacturer, id))
                           \cup {[r EXCEPT !.name = name] : r \in Where(manufacturer, id)}
    /\ dbret' = [op |-> "update", id |-> id, name |-> name]

\* DeleteManufacturer: DELETE FROM manufacturer WHERE id = ?
DeleteManufacturer(id) ==
    /\ manufacturer' = manufacturer \ Where(manufacturer, id)
    /\ dbret' = [op |-> "delete", id |-> id]

DBFrame ==
    UNCHANGED <<filevars, mgrvars, rdrvars, ingvars, store, histvars, taskvars, timevars>>

DBInit ==
    /\ disk = <<>>
    /\ orphan = <<>>
    /\ attached = FALSE
    /\ appended = <<>>
    /\ removeCalled = FALSE
    /\ lastOp = NoOp
    /\ PipeIdle
    /\ LifeIdle
    /\ TimeIdle
    /\ DBIdle

CRUDNext ==
    \/ \E name \in Names : CreateManufacturer(name) /\ UNCHANGED <<timeseries_event, seq>> /\ DBFrame
    \/ \E id \in Ids : GetManufacturer(id) /\ UNCHANGED <<timeseries_event, seq>> /\ DBFrame
    \/ \E id \in Ids, name \in Names :
          UpdateManufacturer(id, name) /\ UNCHANGED <<timeseries_event, seq>> /\ DBFrame
    \/ \E id \in Ids : DeleteManufacturer(id) /\ UNCHANGED <<timeseries_event, seq>> /\ DBFrame

SpecCRUD == DBInit /\ [][CRUDNext]_vars

\* The events a caller may insert; the timestamps are instants.
Events == [timestamp : 0..MaxTime, source : Sources, type : Types, payload : Payloads]

\* InsertTimeseriesEvent: INSERT INTO timeseries_event (timestamp, source, type,
\* payload) VALUES (?, ?, ?, ?), LastInsertId.  "id INTEGER PRIMARY KEY
\* AUTOINCREMENT" gives a row one above the highest id ever given.
InsertTimeseriesEvent(event) ==
    /\ seq < MaxEvents
    /\ seq' = seq + 1
    /\ timeseries_event' = timeseries_event \cup
          {[id |-> seq + 1, timestamp |-> event.timestamp, source |-> event.source,
            type |-> event.type, payload |-> event.payload]}
    /\ dbret' = [op |-> "insert", event |-> event, id |-> seq + 1]

\* Variant of Between: the bounds are excluded.
BetweenExclusive(x, lo, hi) == lo < x /\ x < hi

\* "x BETWEEN lo AND hi"
Between(x, lo, hi) == lo <= x /\ x <= hi

\* "WHERE source = ? AND type = ? AND timestamp BETWEEN ? AND ?"
Selected(t, source, eventType, start, end) ==
    {r \in t : r.source = source /\ r.type = eventType /\ Between(r.timestamp, start, end)}

\* "ORDER BY timestamp": the orders in which the rows of S may be returned.
OrderByTimestamp(S) ==
    {q \in [1..Cardinality(S) -> S] :
        /\ \A i, j \in 1..Cardinality(S) : i # j => q[i] # q[j]
        /\ \A i, j \in 1..Cardinality(S) : i < j => q[i].timestamp <= q[j].timestamp}

\* QueryTimeseriesEvents: the rows of the SELECT, appended to events in turn.
QueryTimeseriesEvents(source, eventType, start, end) ==
    /\ \E q \in OrderByTimestamp(Selected(timeseries_event, source, eventType, start, end)) :
          dbret' = [op |-> "query", source |-> source, type |-> eventType,
                    start |-> start, end |-> end, events |-> q]
    /\ UNCHANGED <<timeseries_event, seq>>

EventsNext ==
    \/ \E event \in Events : InsertTimeseriesEvent(event) /\ UNCHANGED manufacturer /\ DBFrame
    \/ \E source \in Sources, eventType \in Types, start \in 0..MaxTime, end \in 0..MaxTime :
          QueryTimeseriesEvents(source, eventType, start, end)
              /\ UNCHANGED manufacturer /\ DBFrame

SpecEvents == DBInit /\ [][EventsNext]_vars

\* ------------------------------------------------------------------- claims
\* The frames a file holds in full: each a four-byte length and all of the
\* bytes it announces; a frame cut short ends the sequence.
RECURSIVE CompleteFrames(_)
CompleteFrames(f) ==
    IF Len(f) < 4 THEN <<>>
    ELSE LET l == DecodeLen(SubSeq(f, 1, 4))
         IN  IF Len(f) < 4 + l THEN <<>>
             ELSE <<SubSeq(f, 5, 4 + l)>> \o CompleteFrames(SubSeq(f, 5 + l, Len(f)))

\* What a ReadBatch without limit returns from the file at the buffer path.
Readable == readBatchFromDisk(disk, LenProbe)

TxFailures == {"begin", "prepare", "commit"}

\* C1 (Spec): every record whose Append returned nil is, at every later point,
\* still readable from the file at the buffer path or has been inserted by a
\* committed transaction.
C1_NoRecordLoss ==
    \A i \in 1..Len(appended) :
        appended[i] \in Range(Readable) \/ Row(appended[i]) \in Range(store)

C3_TxFailureKeepsBatch ==
    /\ []((attempt.res \in TxFailures /\ attempt.src = "disk") =>
              IsPrefix(attempt.batch, readBatchFromDisk(disk, MaxBatch)))
    /\ [][ (ipc = "tx" /\ ipc' # "tx" /\ attempt'.res \in TxFailures) =>
              /\ lastStatus'.LastError = Err(attempt'.res, 0)
              /\ lastStatus'.Ingested = lastStatus.Ingested
              /\ lastStatus'.ErrorCount = lastStatus.ErrorCount
              /\ disk' = disk /\ orphan' = orphan /\ attached' = attached ]_vars
    /\ [][ (ipc = "read" /\ batchSrc' = "disk" /\ batch' # batch
              /\ attempt.res \in TxFailures /\ attempt.src = "disk") =>
              IsPrefix(attempt.batch, batch') ]_vars

\* C4 (Spec): when Commit fails for a batch and then succeeds on the next
\* attempt without any Exec failing, and RemoveBatch succeeds, the failed
\* attempt removes nothing, the RemoveBatch that follows the second attempt
\* removes exactly len(batch) records from the buffer file, Ingested grows by
\* len(batch) and each record of the batch is in the store exactly once.
C4_Retried ==
    /\ attempt.prev = "commit"
    /\ attempt.res = "ok"
    /\ attempt.fails = {}
    /\ attempt.src = "disk"

C4_CommitRetry ==
    /\ [][ (C4_Retried /\ ipc \in {"trunc", "rename"} /\ attempt'.rm = "ok") =>
              readBatchFromDisk(disk', LenProbe)
                 = Drop(readBatchFromDisk(disk, LenProbe), Len(batch)) ]_vars
    /\ [][ (C4_Retried /\ ipc = "update" /\ ipc' = "check" /\ attempt.rm = "ok") =>
              /\ lastStatus'.Ingested = lastStatus.Ingested + Len(batch)
              /\ \A i \in 1..Len(batch) :
                    Cardinality({j \in 1..Len(store) : store[j] = Row(batch[i])}) = 1 ]_vars

\* C5 (Spec): when RemoveBatch fails after a successful commit in which no
\* Exec failed, the status update that ends the iteration leaves the remove
\* failure in LastError.
C5_RemoveFailureRecorded ==
    [][ (ipc = "update" /\ ipc' = "check" /\ attempt.res = "ok" /\ attempt.fails = {}
           /\ attempt.rm = "failed") =>
           lastStatus'.LastError.msg = "remove" ]_vars

\* C6 (Spec): for a committed batch of n records of which k >= 1 failed to
\* execute, the store gained the n-k rows, the status update adds k to
\* ErrorCount and n-k to Ingested, and, unless a file call of RemoveBatch
\* failed, none of the n records is left in the buffer file.
C6_ExecFailuresKeepBatch ==
    [][ (ipc = "update" /\ ipc' = "check" /\ attempt.res = "ok" /\ attempt.fails # {}
           /\ attempt.src = "disk" /\ attempt.rm # "failed") =>
           /\ lastStatus'.ErrorCount = lastStatus.ErrorCount + Cardinality(attempt.fails)
           /\ lastStatus'.Ingested
                 = lastStatus.Ingested + Len(batch) - Cardinality(attempt.fails)
           /\ Len(store) >= Len(batch) - Cardinality(attempt.fails)
           /\ \A i \in 1..Len(batch) : batch[i] \notin Range(Readable) ]_vars

\* C7 (SpecBuf): after RemoveBatch(k) on a buffer file holding the frames
\* f1..fm, the file at the buffer path holds exactly f(k+1)..fm, byte for byte
\* and in the same order, and is empty when k >= m.
C7_HeadOnlyTruncation ==
    lastOp.name = "remove" =>
        LET before == CompleteFrames(lastOp.pre)
        IN  /\ Encode(before) = lastOp.pre
            /\ disk = Encode(Drop(before, lastOp.arg))
            /\ IsPrefix(Encode(Take(before, lastOp.arg)) \o disk, lastOp.pre)

C7_Witness ==
    /\ lastOp.name = "remove"
    /\ lastOp.arg = 1
    /\ Len(CompleteFrames(lastOp.pre)) = 2
    /\ CompleteFrames(disk) = Tail(CompleteFrames(lastOp.pre))

\* C8 (SpecBuf): after appending r_1..r_m (empty records included) to an
\* empty FIFO buffer, ReadBatch(n) returns exactly the first min(n, m) of them,
\* in append order and bytewise equal.
C8_FrameRoundTrip ==
    (lastOp.name = "read" /\ ~removeCalled) => lastOp.out = Take(appended, lastOp.arg)

C8_Witness ==
    /\ lastOp.name = "read"
    /\ ~removeCalled
    /\ Len(appended) = 2
    /\ <<>> \in Range(appended)
    /\ lastOp.arg = 2
    /\ lastOp.out = appended

\* C9 (SpecBuf): a ReadBatch leaves the file at the buffer path and the file
\* of the buffer's descriptor unchanged, so Len and SizeBytes are the same
\* before and after it, and a ReadBatch(n) that directly follows a
\* ReadBatch(n) returns the same records.
C9_ReadBatchNonDestructive ==
    [][ (lastOp'.name = "read") =>
            /\ disk' = disk
            /\ FdFile' = FdFile
            /\ FIFOBufferLen(disk') = FIFOBufferLen(disk)
            /\ Len(FdFile') = Len(FdFile)
            /\ (lastOp'.rep => lastOp'.out = lastOp.out) ]_vars

C9_Witness ==
    /\ lastOp.name = "read"
    /\ lastOp.rep
    /\ Len(lastOp.out) = 2

\* C10 (SpecResidue): on a buffer file that ends inside a frame, ReadBatch
\* returns exactly the complete frames that precede the incomplete one and no
\* record for the incomplete frame.
C10_TruncationIsEndOfStream ==
    lastOp.name = "read" => lastOp.out = Take(CompleteFrames(disk), lastOp.arg)

C12_DoubleStartRejected ==
    [][ (StartSimulatedCapture /\ ingesting) =>
            /\ ret' = "already-running"
            /\ UNCHANGED <<stopCh, file, srcOpen, buffer, bufferImpl, stopped, ingesting,
                           lastStatus, mu>>
            /\ UNCHANGED <<rpc, rpos, ipc, batch, filevars, lifevars>> ]_vars

C12_Witness ==
    /\ ret = "already-running"
    /\ ingesting
    /\ rpc \in {"scan", "append", "data"}
    /\ ipc # "idle"
    /\ lastStatus.Ingested > 0

\* C13 (Spec): a StartSimulatedCapture that fails to open the source file or
\* the buffer file returns the error, starts no reader and no ingester, leaves
\* cm.ingesting unset (so the status does not report Ingesting and a later
\* start is not refused as already running) and leaves no file open.
C13_FailedStartLeavesIdle ==
    [][ (StartSimulatedCapture /\ ret' = "open-failed") =>
            /\ ~ingesting'
            /\ ~AlreadyRunning'
            /\ ~srcOpen'
            /\ UNCHANGED <<rpc, ipc, lifevars>> ]_vars

\* C14 (Spec): every StopSimulatedCapture returns with the mutex released and
\* leaves cm.stopped set and cm.ingesting unset; called on a manager that is
\* already stopped it changes no manager field.  So two stops in a row both
\* return, and the second changes nothing.
C14_IdempotentStop ==
    [][ StopSimulatedCapture =>
            /\ mu' = "free"
            /\ stopped'
            /\ ~ingesting'
            /\ (stopped => UNCHANGED mgrvars) ]_vars

\* The line of the source log a row of the store carries, 0 for any other row.
LineOf(row) ==
    IF \E i \in 1..Len(Log) : Log[i] = row.payload
    THEN CHOOSE i \in 1..Len(Log) : Log[i] = row.payload
    ELSE 0

\* C17 (Spec): the rows of the records of a capture enter the store in the
\* order in which the reader appended the records: a row of a record never
\* gets an identifier below the first row of a record appended before it,
\* whether the two were committed in one batch or in different batches.
C17_FIFOOrder ==
    \A q \in 1..Len(store) : \A i \in 1..Len(Log) :
        (LineOf(store[q]) > i /\ Row(Log[i]) \in Range(store)) =>
            \E p \in 1..(q - 1) : store[p] = Row(Log[i])

\* The timestamp of the last parseable line among the first n lines of l, and
\* whether there is one.
RECURSIVE PrevStamp(_, _)
PrevStamp(l, n) ==
    IF n = 0 THEN [some |-> FALSE, ts |-> 0]
    ELSE IF Parsed(l[n]) THEN [some |-> TRUE, ts |-> l[n].ts]
    ELSE PrevStamp(l, n - 1)

\* C20 (SpecTiming): before it appends a line with a parseable timestamp t_cur
\* that follows a line with a parseable timestamp t_prev, the reader sleeps
\* min(t_cur - t_prev, 10 s) when the delta is positive (10 s for a delta of
\* 10 s or more) and does not sleep when it is zero or negative.
C20_TimingRule ==
    [][ (rpc' = "append" /\ tpos' = tpos + 1 /\ Parsed(tlog[tpos'])
            /\ PrevStamp(tlog, tpos).some) =>
            LET delta == tlog[tpos'].ts - PrevStamp(tlog, tpos).ts
            IN  slept' = IF delta > 0 THEN Min(delta, SleepCap) ELSE 0 ]_vars

\* C21 (SpecTiming): no wait of the reader between two lines exceeds ten
\* seconds, and a delta strictly between zero and ten seconds between a
\* parseable line and the parseable line before it is waited in full.
C21_CappedDelta ==
    [][ (rpc' = "append" /\ tpos' = tpos + 1) =>
            /\ slept' <= SleepCap
            /\ (Parsed(tlog[tpos']) /\ PrevStamp(tlog, tpos).some) =>
                  LET delta == tlog[tpos'].ts - PrevStamp(tlog, tpos).ts
                  IN  (delta > 0 /\ delta < SleepCap) => slept' = delta ]_vars

\* Two parseable lines nine seconds apart: the second was waited for nine
\* seconds.
C21_Witness ==
    /\ tpos = 2
    /\ Parsed(tlog[1]) /\ Parsed(tlog[2])
    /\ tlog[2].ts - tlog[1].ts = SleepCap - 1
    /\ slept = SleepCap - 1
    /\ rpc = "append"

\* C22 (SpecTiming): a line without a parseable timestamp is appended without
\* a wait, as the scanner gave it, and leaves the reference timestamp of the
\* next parseable line alone; the first parseable line of a run is appended
\* without a wait as well.
C22_UnparsedLines ==
    /\ [][ (rpc' = "append" /\ tpos' = tpos + 1) =>
              LET line == tlog[tpos']
                  prev == PrevStamp(tlog, tpos)
              IN  /\ ~Parsed(line) =>
                        slept' = 0 /\ lastTimestamp' = lastTimestamp /\ first' = first
                  /\ (Parsed(line) /\ ~prev.some) => slept' = 0
                  /\ ~first' => lastTimestamp' = PrevStamp(tlog, tpos').ts ]_vars
    /\ [][ (rpc = "append" /\ rpc' = "scan" /\ ~stopped) =>
              appended' = Append(appended, tlog[tpos]) ]_vars

\* A parseable line, a line without timestamp, a parseable line five seconds
\* after the first: the third line was waited for five seconds.
C22_Witness ==
    /\ tpos = 3
    /\ Parsed(tlog[1]) /\ ~Parsed(tlog[2]) /\ Parsed(tlog[3])
    /\ tlog[1].ts = 3 /\ tlog[3].ts = 8
    /\ slept = 5
    /\ rpc = "scan" /\ ~stopped
    /\ appended = tlog

\* C24 (Spec): when a read of the source fails with an error other than the
\* end of the stream, the reader records the error in LastError and ends, and
\* appends no record after that; at the plain end of the stream it ends
\* without writing LastError.
C24_ReadErrorEndsReader ==
    /\ [][ (rpc = "scan" /\ rpc' = "done" /\ rpos' = rpos) =>
              IF srcOpen /\ faults' = faults
              THEN rpos = Len(Log) /\ lastStatus' = lastStatus
              ELSE lastStatus'.LastError = Err("scan", 0) ]_vars
    /\ [][ rpc = "done" =>
              /\ rpc' = "done"
              /\ appended' = appended
              /\ FdFile' = FdFile \/ ipc \in {"trunc", "rename"}
              /\ buffer' = buffer \/ buffer' = <<>> ]_vars

\* A read of the open source failed before the last line: the reader is done,
\* the error is in LastError and the line was not appended.
C24_Witness ==
    /\ rpc = "done" /\ srcOpen /\ ~stopped
    /\ rpos > 0 /\ rpos < Len(Log)
    /\ faults > 0
    /\ lastStatus.LastError = Err("scan", 0)
    /\ Len(appended) = rpos

\* C25 (Spec): when the append of a record to the buffer returns an I/O error,
\* the reader records the error in LastError and ends, and the frames the
\* buffer holds are as they were.
C25_AppendErrorEndsReader ==
    [][ (rpc = "append" /\ bufferImpl # "nil" /\ rpc' \notin {"append", "data"}) =>
            /\ rpc' = "done"
            /\ lastStatus'.LastError = Err("append", 0)
            /\ FdFile' = FdFile ]_vars

\* C28 (Spec): the ingester calls RemoveBatch only after the commit of the
\* batch it just read succeeded, with the number of records of that batch
\* (at most what ReadBatch may return), never after a failed Begin, Prepare or
\* Commit; and it opens no transaction for an empty batch.
C28_RemoveFollowsCommit ==
    /\ [][ (ipc # "remove" /\ ipc' = "remove") =>
              /\ ipc = "tx"
              /\ attempt'.res = "ok" /\ attempt'.batch = batch
              /\ batch' = batch ]_vars
    /\ [][ (ipc = "remove" /\ ipc' = "rename") =>
              rem' = Remainder(disk, ScanOffset(disk, 0, Len(attempt.batch))) ]_vars
    /\ [][ (ipc = "remove" /\ ipc' = "trunc") =>
              ScanOffset(disk, 0, Len(attempt.batch)) >= Len(disk) ]_vars
    /\ [][ (ipc # "tx" /\ ipc' = "tx") =>
              /\ ipc = "read"
              /\ batch' # <<>> /\ Len(batch') <= MaxBatch ]_vars
    /\ [][ (ipc \in {"tx", "remove", "trunc", "rename"}) => (batch' = batch) ]_vars

\* RemoveBatch was called for a batch of two after its commit, and took the two
\* frames off a file that held a third.
C28_Witness ==
    /\ ipc = "rename"
    /\ attempt.res = "ok" /\ Len(attempt.batch) = MaxBatch /\ attempt.prev = "commit"
    /\ rem # <<>>

\* C30 (Spec): the ingester calls ReadBatch or RemoveBatch only on the open
\* buffer of the manager, never on a buffer StopSimulatedCapture has closed
\* and never on nil.
C30_NoUseAfterClose ==
    [][ ( \/ ipc = "read" /\ ipc' # "read" /\ ~(batchSrc' = "mem" /\ faults' = faults)
          \/ ipc = "remove" /\ ipc' # "remove" /\ attempt'.rm # "skipped" )
        => (bufferImpl = "fifo" /\ ~stopped) ]_vars

\* C29 (SpecLife): a reader appends a record to a buffer only while that
\* buffer is open, and only to the buffer of the capture that launched it:
\* the reader of an earlier capture never appends to the buffer of a later one.
C29_ReaderAppendsToOwnBuffer ==
    [][ \A g \in 1..MaxGen :
            (rd[g].pc = "append" /\ rd'[g].pc = "scan" /\ FdFile' # FdFile) =>
                (g = gen /\ bufferImpl = "fifo" /\ ~stopped) ]_vars

\* C23 (Spec): in a capture of a log of lines without timestamps, with the
\* store set and working, no fault and no stop, once the reader has reached the
\* end of the log and the ingester finds nothing left to read, Ingested is the
\* number of lines, ErrorCount is zero and the buffer file is empty.
C23_FIFODrain ==
    (/\ rpc = "done" /\ rpos = Len(Log)
     /\ ipc = "check" /\ Readable = <<>>
     /\ captureDB /\ ~stopped /\ faults = 0) =>
        /\ lastStatus.Ingested = Len(Log)
        /\ lastStatus.ErrorCount = 0
        /\ disk = <<>>

Lookup(t, id) == {r.name : r \in {x \in t : x.id = id}}

\* C27 (SpecCRUD): the Manufacturer handlers are a keyed store.  Create puts
\* the name under a new id and returns the id, Update replaces the name under
\* its id, Delete leaves nothing under its id, Get returns the name under its
\* id and an error when there is none; each leaves every other id as it was.
C27_KeyedStore ==
    [][ /\ \A id \in Ids : (dbret'.op # "get" /\ id # dbret'.id) =>
              Lookup(manufacturer', id) = Lookup(manufacturer, id)
        /\ dbret'.op = "create" =>
              /\ Lookup(manufacturer, dbret'.id) = {}
              /\ Lookup(manufacturer', dbret'.id) = {dbret'.name}
        /\ dbret'.op = "update" =>
              Lookup(manufacturer', dbret'.id) =
                  IF Lookup(manufacturer, dbret'.id) = {} THEN {} ELSE {dbret'.name}
        /\ dbret'.op = "delete" => Lookup(manufacturer', dbret'.id) = {}
        /\ dbret'.op = "get" =>
              /\ manufacturer' = manufacturer
              /\ IF Lookup(manufacturer, dbret'.id) = {}
                 THEN dbret'.err
                 ELSE ~dbret'.err /\ Lookup(manufacturer, dbret'.id) = {dbret'.name} ]_vars

\* Id 1 was created and deleted while id 2 holds a name: Get of id 1 fails.
C27_Witness ==
    /\ manufacturer = {[id |-> 2, name |-> "NewName"]}
    /\ dbret = [op |-> "get", id |-> 1, err |-> TRUE]

\* C31 (SpecRED): a REDBuffer behaves as a FIFOBuffer on the same file.  Every
\* operation of the REDBuffer is a step the FIFOBuffer takes for the same
\* operation from the same file, with the same result and the same file
\* afterwards; and an append of the REDBuffer always writes the frame of its
\* record to the file.
C31_REDIsFIFO ==
    /\ [][BufNext]_vars
    /\ [][ lastOp'.name = "append" =>
              \E data \in Records :
                  /\ appended' = Append(appended, data)
                  /\ FdFile' = FdFile \o writeLengthPrefixed(data) ]_vars

\* The REDBuffer has appended two records and removed the first: the file at
\* the path holds the frame of the second.
C31_Witness ==
    /\ Len(appended) = 2
    /\ lastOp.name = "remove" /\ lastOp.arg = 1
    /\ disk = writeLengthPrefixed(appended[2])

\* C32 (Spec): no write to the buffer file is made while the manager mutex is
\* held: the reader holds the mutex neither before nor after a step in which
\* it writes to the file of the buffer.
C32_NoIOUnderMutex ==
    [][ (rpc \in {"append", "data"} /\ rpc' # rpc /\ FdFile' # FdFile) =>
            (mu # "reader" /\ mu' # "reader") ]_vars

\* C33 (Spec): the ingester reads cm.bufferImpl only under the manager mutex:
\* it takes no step that reads the field while the reader holds the mutex.
C33_FieldsUnderMutex ==
    [][ \/ ipc = "read" /\ ipc' # "read"
        \/ ipc = "remove" /\ ipc' # "remove"
        => mu = "free" ]_vars

\* C36 (Spec): the in-memory buffer cm.buffer is always empty, and no batch
\* of the ingester is taken from it.
C36_DiskBufferOnly ==
    buffer = <<>> /\ batchSrc # "mem"

\* C37 (Spec): when the commit of a batch read from the buffer file succeeded,
\* the ingester calls RemoveBatch for it, also when StopSimulatedCapture ran
\* after the stop check of the ingester.
C37_CommittedBatchRemoved ==
    [][ (ipc = "remove" /\ ipc' # "remove" /\ attempt.src = "disk") =>
            attempt'.rm # "skipped" ]_vars

\* C40 (Spec): cm.ingesting and cm.stopped are never both true.
C40_IngestingXorStopped ==
    ~(ingesting /\ stopped)

\* C39 (SpecBuf): what SizeBytes returns is the size of the file at the buffer
\* path, the file ReadBatch reads.
C39_SizeTracksPath ==
    lastOp.name = "size" => lastOp.out = <<Len(disk)>>

\* C38 (SpecLife): once a later capture has been started, and so after the
\* stop of its own capture has returned, an ingester does not pass its stop
\* check into another turn of its loop.
C38_TasksEndAfterStop ==
    [][ \A g \in 1..MaxGen :
            (g < gen /\ ig[g].pc = "check") => ig'[g].pc \in {"check", "done"} ]_vars

\* C34 (SpecTiming): when StopSimulatedCapture is called while the reader
\* waits out the delta before a line, the reader ends without appending that
\* line, neither to the buffer object nor to cm.buffer.
C34_StopInterruptsWait ==
    [][ (rpc = "append" /\ slept > 0 /\ stopped /\ rpc' # "append") =>
            (rpc' = "done" /\ buffer' = buffer /\ appended' = appended) ]_vars

\* C35 (SpecTiming): a line too long for the reader is dropped and the reader
\* goes on: when the reader of a capture that was not stopped has ended, every
\* line of the log that is not too long has been appended.
C35_LongLineDropped ==
    (rpc = "done" /\ ~stopped) =>
        appended = SelectSeq(tlog, LAMBDA line : ~line.long)

\* C15 (SpecLife): when a capture is started on a buffer file that holds the
\* records of an earlier run, no record appended by a reader of the new
\* captures is committed to the store before every one of those records has
\* been committed.
C15_ResidueDrainedFirst ==
    \A q \in 1..Len(store) :
        LineOf(store[q]) > 0 =>
            \A i \in 1..Len(residue) : \E p \in 1..(q - 1) : store[p] = Row(residue[i])

\* C16 (SpecLife): across starts and stops, at most one captureLoop and at most
\* one ingestLoop are running at any time.
C16_SingleReaderSingleIngester ==
    /\ Cardinality(LiveReaders) <= 1
    /\ Cardinality(LiveIngesters) <= 1

\* C18 (SpecLife): the Ingested and ErrorCount a GetCaptureStatus returns never
\* go down: after any step, a call returns values at least as large as a call
\* before the step would have.
C18_StatusMonotone ==
    [][ /\ StatusSnapshot'.Ingested >= StatusSnapshot.Ingested
        /\ StatusSnapshot'.ErrorCount >= StatusSnapshot.ErrorCount ]_vars

\* C19 (SpecLife): GetCaptureStatus runs with the mutex held and released at
\* its end, returns a status whose Ingesting and Stopped are the manager's
\* flags and whose counters are those of cm.lastStatus, and changes no field of
\* the manager, no file, no task and nothing in the store.
C19_StatusIsSnapshot ==
    [][ GetCaptureStatus =>
            /\ mu = "free" /\ mu' = "free"
            /\ obs'.kind = "status"
            /\ obs'.Ingesting = ingesting /\ obs'.Stopped = stopped
            /\ obs'.Ingested = lastStatus.Ingested
            /\ obs'.ErrorCount = lastStatus.ErrorCount
            /\ UNCHANGED <<mgrvars, filevars, store, gen, rd, ig>> ]_vars

====
